---- MODULE Spec2Model ----
(***************************************************************************)
(* Tenant-isolated context store of jean-memory                            *)
(* (backend/database/context_storage.py) and the handlers that write to    *)
(* it.  The relational backing store is modelled by the two tables the     *)
(* code creates (users, context), their SERIAL sequences and NOW().        *)
(***************************************************************************)
EXTENDS Integers, Sequences, FiniteSets, TLC

VARIABLES
    pool,            \* ContextDatabase.pool: "None" | "open" | "closed"
    users,           \* rows of table users
    context,         \* rows of table context
    users_id_seq,    \* next value of users.id SERIAL
    context_id_seq,  \* next value of context.id SERIAL
    now,             \* value of NOW() at the last executed write statement
    call,            \* per caller: the store operation in flight / last completed
    response,        \* per caller: last reply a handler gave to its client
    routing,         \* the ContextRouter.route call in flight / last completed
    adapter,         \* the last get_context call made on one adapter directly
    conn,            \* per caller: pooled connections its operation holds
    lifespan_context,\* the AppContext shared by every MCP request
    request,         \* per caller: the MCP request in flight / last completed
    db_instance,     \* database._db_instance: "None" | "ContextDatabase"
    db_created,      \* ContextDatabase objects created since the last close_db
    db_call          \* per caller: the singleton call in flight / last completed

vars ==
    <<pool, users, context, users_id_seq, context_id_seq, now, call, response,
      routing, adapter, conn, lifespan_context, request, db_instance,
      db_created, db_call>>

----------------------------------------------------------------------------
\* Bounds of the model

\* number of write statements (INSERT ... ON CONFLICT) the database executes
MaxStmts == 2
\* the same, where three entries have to coexist
MaxTenantStmts == 3
\* number of rows of table users
MaxUsers == 2

Callers == {"c1", "c2"}
Tenants == {"t1", "t2"}
\* user ids a request may carry; the largest one is never a row of users
UserIds == 1 .. 3
ContextTypes == {"notes", "obsidian"}
\* Texts (keys, credentials) are sequences of string fragments.
\* SQL NULL, the value of an absent source_identifier / Python None
NULL == <<"NULL">>
\* Python None as the value of an optional document argument
None == <<"None">>
\* Python None as the value of the optional limit argument
NoLimit == <<>>
SourceIdentifiers == {NULL, <<"k1">>}
\* a value json.dumps cannot serialise (raises TypeError)
Unserializable == <<"object">>
\* documents: JSON strings, as sequences of characters
Contents == {<<"a">>, <<"B">>}
Metadatas == {None, <<"m">>}
Queries == {<<"a">>, <<"b">>}
Limits == {NoLimit, <<1>>}

----------------------------------------------------------------------------
\* JSON conversion: json.dumps(value) and the ::jsonb cast / content::text

Quote == "\""

\* json.dumps of a JSON string: the characters between double quotes
json_dumps(d) ==
    IF d = Unserializable THEN <<"TypeError">> ELSE <<Quote>> \o d \o <<Quote>>

\* json.dumps({}) : the text of the empty object
EmptyObjectText == <<"{", "}">>

\* $n::jsonb : the jsonb value of a JSON text (a string loses its quotes,
\* the empty object stays an object)
to_jsonb(t) ==
    IF t = EmptyObjectText THEN <<>>
    ELSE SubSeq(t, 2, Len(t) - 1)

\* content::text : the text of a jsonb string value
jsonb_text(v) == <<Quote>> \o v \o <<Quote>>

\* datetime.isoformat()
isoformat(t) == <<"iso", t>>

----------------------------------------------------------------------------
\* The idle call record and the fields every call record has

NoCall ==
    [pc |-> "idle", op |-> "-", user_id |-> 0, tenant_id |-> "-",
     context_type |-> "-", source_identifier |-> NULL, content |-> <<>>,
     metadata |-> <<>>, query |-> <<>>, limit |-> NoLimit,
     api_key |-> <<>>, google_id |-> "-", email |-> "-",
     raised |-> "none", error |-> "none", result |-> "-", touched |-> {}]

NoResponse == [handler |-> "-", reply |-> "-", reported |-> FALSE]

\* ContextRouter.specialized_routers, in the order the dict is built
Registry ==
    <<"github", "notes", "values", "conversations", "tasks", "work", "media",
      "locations">>

RegistryNames == {Registry[i] : i \in 1 .. Len(Registry)}

\* no result dict
NoResult == [type |-> "-", content |-> <<>>, sources |-> <<>>]

\* no route call yet
NoRoute ==
    [pc |-> "idle", user_id |-> 0, tenant_id |-> "-", query |-> <<>>,
     hint |-> "None", gemini |-> "None", gemini_calls |-> 0,
     keyword_calls |-> 0, context_type |-> "-",
     branch |-> [n \in RegistryNames |-> "-"],
     out |-> [n \in RegistryNames |-> NoResult],
     reads |-> {}, raised |-> "none", result |-> NoResult]

\* no get_context call has been made on an adapter directly
NoAdapterCall ==
    [pc |-> "-", name |-> "-", db |-> "None", gemini_api |-> "None",
     process |-> "-", user_id |-> 0, tenant_id |-> "-", query |-> <<>>,
     cached_data |-> <<>>, result |-> NoResult]

\* an operation that has taken no connection from the pool
NoConn == [held |-> 0, acquired |-> 0, statements |-> 0]

\* AppContext(db=db): user_id None (written 0), tenant_id 'default'
AppContext == [user_id |-> 0, tenant_id |-> "default"]

\* no MCP request yet
NoRequest ==
    [pc |-> "-", user_id |-> 0, tenant_id |-> "-",
     tool_user_id |-> 0, tool_tenant_id |-> "-", items |-> {}]

\* no call of the database singleton module yet
NoDbCall == [pc |-> "-", op |-> "-", returned |-> "-", pool |-> "-", raised |-> "none"]

\* the server before any adapter call, MCP request or singleton call
ServerIdle ==
    /\ adapter = NoAdapterCall
    /\ conn = [c \in Callers |-> NoConn]
    /\ lifespan_context = AppContext
    /\ request = [c \in Callers |-> NoRequest]
    /\ db_instance = "None"
    /\ db_created = 0
    /\ db_call = [c \in Callers |-> NoDbCall]

----------------------------------------------------------------------------
\* Table users (CREATE TABLE users, context_storage.py:34-47); settings is
\* the jsonb value, the empty object by default

UserRow(id, tenant_id, google_id, email, api_key) ==
    [id |-> id, tenant_id |-> tenant_id, google_id |-> google_id,
     email |-> email, api_key |-> api_key, settings |-> <<>>]

\* str(uuid.uuid4()): the n-th credential generated
Uuid(n) == <<"uuid-", ToString(n)>>

\* ids of the rows of users: the targets of context.user_id REFERENCES users(id)
UserRowIds(us) == {u.id : u \in us}

----------------------------------------------------------------------------
\* Table context and the upsert statement of store_context

\* the id and tenant of the rows a call read or changed
Touched(S) == {[id |-> r.id, tenant_id |-> r.tenant_id] : r \in S}

\* the arguments of one store_context call
StoreArgs(U, T, C, K, D, M) ==
    [user_id : U, tenant_id : T, context_type : C, source_identifier : K,
     content : D, metadata : M]

\* ON CONFLICT (tenant_id, user_id, context_type, source_identifier): the
\* rows the new tuple conflicts with under the UNIQUE constraint of table
\* context.  SQL compares the columns with =, and NULL = NULL is not true,
\* so a NULL source_identifier conflicts with no row.
ConflictRows(ctx, a) ==
    {r \in ctx : /\ r.tenant_id = a.tenant_id
                 /\ r.user_id = a.user_id
                 /\ r.context_type = a.context_type
                 /\ a.source_identifier # NULL
                 /\ r.source_identifier = a.source_identifier}

\* metadata_json = json.dumps(metadata) if metadata else json.dumps({})
MetadataJson(m) == IF m = None THEN EmptyObjectText ELSE json_dumps(m)

\* INSERT INTO context ... VALUES (..., NOW()) ON CONFLICT ... DO UPDATE SET
\* content, metadata, updated_at: table context after the statement ran with
\* SERIAL value id at time t
UpsertRows(ctx, a, id, t) ==
    LET hit == ConflictRows(ctx, a)
        content == to_jsonb(json_dumps(a.content))
        metadata == to_jsonb(MetadataJson(a.metadata))
    IN  IF hit # {}
        THEN (ctx \ hit) \cup
             {[r EXCEPT !.content = content, !.metadata = metadata,
                        !.updated_at = t] : r \in hit}
        ELSE ctx \cup
             {[id |-> id, user_id |-> a.user_id, tenant_id |-> a.tenant_id,
               context_type |-> a.context_type,
               source_identifier |-> a.source_identifier,
               content |-> content, metadata |-> metadata,
               created_at |-> t, updated_at |-> t]}

RolledBack_InsertKept(ctx, a, id, t) == UpsertRows(ctx, a, id, t)

\* table context after a statement that raised: the statement is atomic, a
\* failed INSERT leaves no row behind
RolledBack(ctx, a, id, t) == ctx

\* user_id INTEGER NOT NULL REFERENCES users(id): the INSERT raises a
\* foreign-key violation when no row of users has this id
ForeignKeyViolation(us, a) == a.user_id \notin UserRowIds(us)

\* what the persistence layer does to a call: nothing, no connection can be
\* acquired, or the statement raises
Faults == {"none", "acquire", "execute"}

\* a store_context call with arguments a
StoreReq(a) ==
    [NoCall EXCEPT !.op = "store_context",
        !.user_id = a.user_id, !.tenant_id = a.tenant_id,
        !.context_type = a.context_type,
        !.source_identifier = a.source_identifier,
        !.content = a.content, !.metadata = a.metadata]

\* the common entry of store_context, get_context, delete_user_data,
\* get_all_context_by_type and search_context: raise ConnectionError when
\* the pool is absent, otherwise wait for a pooled connection
begin_call(c, req) ==
    /\ call[c].pc # "acquired"
    /\ call' = [call EXCEPT ![c] =
            [req EXCEPT
                !.pc = IF pool = "None" THEN "done" ELSE "acquired",
                !.raised = IF pool = "None" THEN "ConnectionError" ELSE "none"]]
    /\ UNCHANGED <<pool, users, context, users_id_seq, context_id_seq, now, response, routing,
                   adapter, conn, lifespan_context, request, db_instance, db_created, db_call>>

\* the exception the try block of store_context catches for call record a
\* under fault, "none" when the statement completes: the acquire raises on
\* a closed pool or a connection failure, json.dumps raises TypeError, the
\* statement raises on a connection failure or a foreign-key violation
StoreError(a, fault) ==
    IF pool = "closed" \/ fault = "acquire" THEN "acquire"
    ELSE IF json_dumps(a.content) = <<"TypeError">> THEN "TypeError"
    ELSE IF fault = "execute" THEN "execute"
    ELSE IF ForeignKeyViolation(users, a) THEN "ForeignKeyViolation"
    ELSE "none"

\* whether the INSERT reached the database (and drew from the sequence)
StatementRan(a, fault) ==
    StoreError(a, fault) \in {"none", "ForeignKeyViolation"}

\* store_context from the acquired connection to the return: the statement
\* runs atomically, the connection is released, True is returned, or False
\* from the except branch.  cap bounds the number of statements executed.
store_context(c, fault, cap) ==
    /\ call[c].pc = "acquired"
    /\ call[c].op = "store_context"
    /\ now < cap
    /\ LET err == StoreError(call[c], fault)
           ran == StatementRan(call[c], fault)
           rows == IF err = "none"
                   THEN UpsertRows(context, call[c], context_id_seq, now + 1)
                   ELSE RolledBack(context, call[c], context_id_seq, now + 1)
       IN  /\ context' = rows
           /\ context_id_seq' = IF ran THEN context_id_seq + 1 ELSE context_id_seq
           /\ now' = IF ran THEN now + 1 ELSE now
           /\ call' = [call EXCEPT ![c].pc = "done", ![c].error = err,
                          ![c].result = (err = "none"),
                          ![c].touched = Touched(rows \ context)]
    /\ UNCHANGED <<pool, users, users_id_seq, response, routing,
                   adapter, conn, lifespan_context, request, db_instance, db_created, db_call>>

----------------------------------------------------------------------------
\* Reads: get_context, search_context, get_all_context_by_type

Min(a, b) == IF a < b THEN a ELSE b

\* ORDER BY updated_at DESC
RECURSIVE OrderByUpdatedDesc(_)
OrderByUpdatedDesc(S) ==
    IF S = {} THEN <<>>
    ELSE LET m == CHOOSE r \in S : \A q \in S : q.updated_at <= r.updated_at
         IN  <<m>> \o OrderByUpdatedDesc(S \ {m})

\* LIMIT $n, appended only when limit is not None
LimitRows(rows, limit) ==
    IF limit = NoLimit THEN rows
    ELSE SubSeq(rows, 1, Min(limit[1], Len(rows)))

\* the dict get_context and search_context build from a row
RowDict(r) ==
    [id |-> r.id, context_type |-> r.context_type,
     source_identifier |-> r.source_identifier,
     content |-> r.content, metadata |-> r.metadata,
     created_at |-> isoformat(r.created_at),
     updated_at |-> isoformat(r.updated_at)]

RowDicts(rows) == [i \in 1 .. Len(rows) |-> RowDict(rows[i])]

RowSet(rows) == {rows[i] : i \in 1 .. Len(rows)}

\* WHERE user_id = $1 AND tenant_id = $2 AND context_type = $3
\* [AND source_identifier = $4]: the second query, without the key, is used
\* when source_identifier is None
GetContextWhere(ctx, q) ==
    {r \in ctx : /\ r.user_id = q.user_id
                 /\ r.tenant_id = q.tenant_id
                 /\ r.context_type = q.context_type
                 /\ (q.source_identifier # NULL =>
                        r.source_identifier = q.source_identifier)}

\* the rows get_context fetches for call record q
GetContextRows(ctx, q) ==
    LimitRows(OrderByUpdatedDesc(GetContextWhere(ctx, q)), q.limit)

\* the exception the try block of get_context / search_context catches:
\* the acquire raises on a closed pool or a connection failure, the query on
\* a connection failure
ReadError(pl, fault) ==
    IF pl = "closed" THEN "acquire" ELSE fault

\* get_context from the acquired connection to the return: [] when the
\* acquire or the query raised
get_context(c, fault) ==
    /\ call[c].pc = "acquired"
    /\ call[c].op = "get_context"
    /\ LET failed == ReadError(pool, fault) # "none"
           rows == IF failed THEN <<>> ELSE GetContextRows(context, call[c])
       IN  call' = [call EXCEPT ![c].pc = "done", ![c].result = RowDicts(rows),
                       ![c].error = ReadError(pool, fault),
                       ![c].touched = Touched(RowSet(rows))]
    /\ UNCHANGED <<pool, users, context, users_id_seq, context_id_seq, now, response, routing,
                   adapter, conn, lifespan_context, request, db_instance, db_created, db_call>>

GetReq(u, t, ct, k, l) ==
    [NoCall EXCEPT !.op = "get_context", !.user_id = u, !.tenant_id = t,
        !.context_type = ct, !.source_identifier = k, !.limit = l]

\* lower case of one character, as ILIKE compares
Lower(ch) == IF ch = "A" THEN "a" ELSE IF ch = "B" THEN "b" ELSE ch

\* text ILIKE pattern: % matches any run of characters, _ any one character,
\* every other character itself without regard to case
RECURSIVE ILike(_, _)
ILike(t, p) ==
    IF p = <<>> THEN t = <<>>
    ELSE IF Head(p) = "%"
         THEN ILike(t, Tail(p)) \/ (t # <<>> /\ ILike(Tail(t), p))
         ELSE /\ t # <<>>
              /\ (Head(p) = "_" \/ Lower(Head(p)) = Lower(Head(t)))
              /\ ILike(Tail(t), Tail(p))

\* WHERE user_id = $1 AND tenant_id = $2 AND context_type = $3
\* AND content::text ILIKE '%query%'
SearchContextWhere(ctx, q) ==
    {r \in ctx : /\ r.user_id = q.user_id
                 /\ r.tenant_id = q.tenant_id
                 /\ r.context_type = q.context_type
                 /\ ILike(jsonb_text(r.content), <<"%">> \o q.query \o <<"%">>)}

SearchContextRows(ctx, q) ==
    LimitRows(OrderByUpdatedDesc(SearchContextWhere(ctx, q)), q.limit)

\* search_context from the acquired connection to the return
search_context(c, fault) ==
    /\ call[c].pc = "acquired"
    /\ call[c].op = "search_context"
    /\ LET failed == ReadError(pool, fault) # "none"
           rows == IF failed THEN <<>> ELSE SearchContextRows(context, call[c])
       IN  call' = [call EXCEPT ![c].pc = "done", ![c].result = RowDicts(rows),
                       ![c].error = ReadError(pool, fault),
                       ![c].touched = Touched(RowSet(rows))]
    /\ UNCHANGED <<pool, users, context, users_id_seq, context_id_seq, now, response, routing,
                   adapter, conn, lifespan_context, request, db_instance, db_created, db_call>>

\* limit defaults to 10
DefaultSearchLimit == 10

SearchReq(u, t, ct, qs, l) ==
    [NoCall EXCEPT !.op = "search_context", !.user_id = u, !.tenant_id = t,
        !.context_type = ct, !.query = qs, !.limit = l]

\* json.loads of the text of a JSON string
json_loads(t) == SubSeq(t, 2, Len(t) - 1)

\* SELECT content FROM context WHERE user_id = $1 AND context_type = $2:
\* the statement names no tenant
GetAllByTypeWhere(ctx, q) ==
    {r \in ctx : r.user_id = q.user_id /\ r.context_type = q.context_type}

\* get_all_context_by_type(user_id, context_type) from the acquired
\* connection to the return.  The call record's tenant_id is the tenant of
\* the request the call serves; the operation does not receive it.
get_all_context_by_type(c, fault) ==
    /\ call[c].pc = "acquired"
    /\ call[c].op = "get_all_context_by_type"
    /\ LET failed == pool = "closed" \/ fault # "none"
           rows == IF failed THEN <<>>
                   ELSE OrderByUpdatedDesc(GetAllByTypeWhere(context, call[c]))
           kept == SelectSeq(rows, LAMBDA r : r.content # <<>>)
       IN  call' = [call EXCEPT ![c].pc = "done",
                       ![c].result = [i \in 1 .. Len(kept) |->
                                        json_loads(jsonb_text(kept[i].content))],
                       ![c].touched = Touched(RowSet(kept))]
    /\ UNCHANGED <<pool, users, context, users_id_seq, context_id_seq, now, response, routing,
                   adapter, conn, lifespan_context, request, db_instance, db_created, db_call>>

GetAllReq(u, t, ct) ==
    [NoCall EXCEPT !.op = "get_all_context_by_type", !.user_id = u,
        !.tenant_id = t, !.context_type = ct]

----------------------------------------------------------------------------
\* delete_user_data

DeleteUserRows_AnyTenant(ctx, q) == {r \in ctx : r.user_id # q.user_id}

\* DELETE FROM context WHERE user_id = $1 AND tenant_id = $2: the rows left
DeleteUserRows(ctx, q) ==
    {r \in ctx : ~(r.user_id = q.user_id /\ r.tenant_id = q.tenant_id)}

\* delete_user_data from the acquired connection to the return
delete_user_data(c, fault) ==
    /\ call[c].pc = "acquired"
    /\ call[c].op = "delete_user_data"
    /\ LET failed == pool = "closed" \/ fault # "none"
           left == IF failed THEN context ELSE DeleteUserRows(context, call[c])
       IN  /\ context' = left
           /\ call' = [call EXCEPT ![c].pc = "done", ![c].result = ~failed,
                          ![c].touched = Touched(context \ left)]
    /\ UNCHANGED <<pool, users, users_id_seq, context_id_seq, now, response, routing,
                   adapter, conn, lifespan_context, request, db_instance, db_created, db_call>>

DeleteUserReq(u, t) ==
    [NoCall EXCEPT !.op = "delete_user_data", !.user_id = u, !.tenant_id = t]

----------------------------------------------------------------------------
\* Lifecycle of the pool

\* initialize: create_pool and CREATE TABLE IF NOT EXISTS; ok = FALSE is a
\* connection attempt that failed (the exception is re-raised, pool stays None)
initialize(ok) ==
    /\ pool = "None"
    /\ pool' = IF ok THEN "open" ELSE "None"
    /\ UNCHANGED <<users, context, users_id_seq, context_id_seq, now, call, response, routing,
                   adapter, conn, lifespan_context, request, db_instance, db_created, db_call>>

\* close: closes the pool; self.pool keeps referring to the closed pool
close ==
    /\ pool = "open"
    /\ \A c \in Callers : call[c].pc # "acquired"
    /\ pool' = "closed"
    /\ UNCHANGED <<users, context, users_id_seq, context_id_seq, now, call, response, routing,
                   adapter, conn, lifespan_context, request, db_instance, db_created, db_call>>

----------------------------------------------------------------------------
\* A database in which two users have registered, one per tenant

TwoUsers ==
    {UserRow(1, "t1", "g1", "e1", Uuid(1)), UserRow(2, "t2", "g2", "e2", Uuid(2))}

Init ==
    /\ pool = "None"
    /\ users = TwoUsers
    /\ context = {}
    /\ users_id_seq = 3
    /\ context_id_seq = 1
    /\ now = 0
    /\ call = [c \in Callers |-> NoCall]
    /\ response = [c \in Callers |-> NoResponse]
    /\ routing = NoRoute
    /\ ServerIdle

SpecStoreArgs ==
    StoreArgs({1, 3}, Tenants, {"notes"}, SourceIdentifiers,
              Contents \cup {Unserializable}, Metadatas)

SpecGetReqs ==
    {GetReq(u, t, "notes", k, l) :
        u \in {1}, t \in Tenants, k \in SourceIdentifiers, l \in Limits}

Next ==
    \/ \E ok \in BOOLEAN : initialize(ok)
    \/ close
    \/ \E a \in SpecStoreArgs : begin_call("c1", StoreReq(a))
    \/ \E q \in SpecGetReqs : begin_call("c1", q)
    \/ \E f \in Faults : store_context("c1", f, MaxStmts)
    \/ \E f \in Faults : get_context("c1", f)

Spec == Init /\ [][Next]_vars

----------------------------------------------------------------------------
\* Requests of two users under two tenants and two categories

TenantStoreArgs ==
    StoreArgs({1, 2}, Tenants, ContextTypes, {<<"k1">>}, {<<"a">>}, {None})

TenantReadReqs ==
    {GetReq(u, t, ct, NULL, NoLimit) :
        u \in {1, 2}, t \in Tenants, ct \in ContextTypes}
    \cup {SearchReq(u, t, ct, <<"a">>, NoLimit) :
        u \in {1, 2}, t \in Tenants, ct \in ContextTypes}
    \cup {GetAllReq(u, t, "obsidian") : u \in {1, 2}, t \in Tenants}
    \cup {DeleteUserReq(u, t) : u \in {1, 2}, t \in Tenants}

NextTenant ==
    \/ \E ok \in BOOLEAN : initialize(ok)
    \/ close
    \/ \E a \in TenantStoreArgs : begin_call("c1", StoreReq(a))
    \/ \E q \in TenantReadReqs : begin_call("c1", q)
    \/ \E f \in Faults : store_context("c1", f, MaxTenantStmts)
    \/ \E f \in Faults : get_context("c1", f)
    \/ \E f \in Faults : search_context("c1", f)
    \/ \E f \in Faults : get_all_context_by_type("c1", f)
    \/ \E f \in Faults : delete_user_data("c1", f)

SpecTenant == Init /\ [][NextTenant]_vars

----------------------------------------------------------------------------
\* Reads of one bank: entries with and without key are stored, then read by
\* get_context and search_context

ReadStoreArgs ==
    StoreArgs({1}, {"t1"}, ContextTypes, SourceIdentifiers, Contents, {None})

\* the texts searched for: letters, and the characters ILIKE gives a meaning
SearchQueries == Queries \cup {<<"_">>, <<"%">>}

\* the limit argument of search_context, 10 when the caller gives none
SearchLimits == {<<DefaultSearchLimit>>, <<1>>}

ReadReqs ==
    {GetReq(1, "t1", "notes", k, l) : k \in SourceIdentifiers, l \in Limits}
    \cup {SearchReq(1, "t1", "notes", qs, l) : qs \in SearchQueries, l \in SearchLimits}

NextRead ==
    \/ \E ok \in BOOLEAN : initialize(ok)
    \/ close
    \/ \E a \in ReadStoreArgs : begin_call("c1", StoreReq(a))
    \/ \E q \in ReadReqs : begin_call("c1", q)
    \/ \E f \in Faults : store_context("c1", f, MaxStmts)
    \/ \E f \in Faults : get_context("c1", f)
    \/ \E f \in Faults : search_context("c1", f)

SpecRead == Init /\ [][NextRead]_vars

----------------------------------------------------------------------------
\* Two requests that upsert at the same time: both have entered
\* store_context and wait for their connection before either statement runs

RaceStoreArgs ==
    StoreArgs({1}, {"t1"}, {"notes"}, SourceIdentifiers, Contents, {None})

\* the entry an earlier upsert with key k left behind
EarlierRow(k) ==
    UpsertRows({}, [user_id |-> 1, tenant_id |-> "t1", context_type |-> "notes",
                    source_identifier |-> k, content |-> <<"a">>,
                    metadata |-> None], 1, 1)

InitRace ==
    /\ pool = "open"
    /\ users = TwoUsers
    /\ users_id_seq = 3
    /\ \/ context = {} /\ context_id_seq = 1 /\ now = 0
       \/ \E k \in SourceIdentifiers :
            context = EarlierRow(k) /\ context_id_seq = 2 /\ now = 1
    /\ call = [c \in Callers |-> NoCall]
    /\ response = [c \in Callers |-> NoResponse]
    /\ routing = NoRoute
    /\ ServerIdle

\* a request enters store_context
race_begin(c, a) ==
    /\ call[c].pc = "idle"
    /\ begin_call(c, StoreReq(a))

\* its statement runs once every request is in flight
race_execute(c) ==
    /\ \A d \in Callers : call[d].pc # "idle"
    /\ store_context(c, "none", MaxTenantStmts)

NextRace ==
    \/ \E c \in Callers : \E a \in RaceStoreArgs : race_begin(c, a)
    \/ \E c \in Callers : race_execute(c)

SpecRace == InitRace /\ [][NextRace]_vars

----------------------------------------------------------------------------
\* Handlers that write to the store: the MCP store method (app/app.py) and
\* the tools create_note and create_jean_memory_entry.  A handler enters
\* store_context, waits for it, then replies; `reported` is whether the
\* reply tells the client that the entry was stored.

\* values of datetime.utcnow().isoformat()
Timestamps == {"T1", "T2"}

\* the handler's `if db` / `lifespan_context.db`: the database object exists
\* once initialize has succeeded
DbAvailable == pool # "None"

Reply(handler, reply, reported) ==
    [handler |-> handler, reply |-> reply, reported |-> reported]

\* the handler calls store_context(a) and awaits it
AwaitStore(c, handler, a) ==
    /\ call' = [call EXCEPT ![c] = [StoreReq(a) EXCEPT !.pc = "acquired"]]
    /\ response' = [response EXCEPT ![c] = Reply(handler, "pending", FALSE)]

\* the handler replies without calling the store
ReplyNow(c, handler, reply, reported) ==
    /\ call' = [call EXCEPT ![c] = NoCall]
    /\ response' = [response EXCEPT ![c] = Reply(handler, reply, reported)]

\* the awaited store_context call of handler has returned or raised
StoreReturned(c, handler) ==
    /\ response[c].handler = handler
    /\ response[c].reply = "pending"
    /\ call[c].pc = "done"

\* mcp_endpoint, method "store": user_id 0 is an absent request.state.user_id
mcp_endpoint(c, user_id, tenant_id, context_type, content, source_identifier) ==
    /\ call[c].pc # "acquired"
    /\ IF user_id = 0
       THEN ReplyNow(c, "mcp_endpoint", "error", FALSE)
       ELSE IF ~DbAvailable
       THEN ReplyNow(c, "mcp_endpoint", "success", FALSE)
       ELSE AwaitStore(c, "mcp_endpoint",
                [user_id |-> user_id, tenant_id |-> tenant_id,
                 context_type |-> context_type,
                 source_identifier |-> source_identifier,
                 content |-> content, metadata |-> None])
    /\ UNCHANGED <<pool, users, context, users_id_seq, context_id_seq, now, routing,
                   adapter, conn, lifespan_context, request, db_instance, db_created, db_call>>

\* stored_status after `await db.store_context(...)`: the value returned is
\* not looked at
McpStoredStatus(returned) == TRUE

\* mcp_endpoint after store_context: {"stored": stored_status}
mcp_endpoint_reply(c) ==
    /\ StoreReturned(c, "mcp_endpoint")
    /\ response' = [response EXCEPT ![c] =
          IF call[c].raised # "none"
          THEN Reply("mcp_endpoint", "error", FALSE)
          ELSE Reply("mcp_endpoint", "success", McpStoredStatus(call[c].result))]
    /\ UNCHANGED <<pool, users, context, users_id_seq, context_id_seq, now, call, routing,
                   adapter, conn, lifespan_context, request, db_instance, db_created, db_call>>

\* source_identifier=f"note-{datetime.utcnow().isoformat()}"
NoteKey(ts) == <<"note-", ts>>

\* metadata={"tags": tags_str}
TagsMetadata(tags) == <<"tags:">> \o tags

\* create_note up to the store_context call
create_note(c, user_id, tenant_id, content, tags, ts) ==
    /\ call[c].pc # "acquired"
    /\ IF ~DbAvailable \/ user_id = 0
       THEN ReplyNow(c, "create_note", "failure", FALSE)
       ELSE AwaitStore(c, "create_note",
                [user_id |-> user_id, tenant_id |-> tenant_id,
                 context_type |-> "notes",
                 source_identifier |-> NoteKey(ts),
                 content |-> content, metadata |-> TagsMetadata(tags)])
    /\ UNCHANGED <<pool, users, context, users_id_seq, context_id_seq, now, routing,
                   adapter, conn, lifespan_context, request, db_instance, db_created, db_call>>

\* "success" of create_note's reply after note_id = await store_context(...)
NoteSuccess(returned) == TRUE

\* create_note after store_context
create_note_reply(c) ==
    /\ StoreReturned(c, "create_note")
    /\ response' = [response EXCEPT ![c] =
          IF call[c].raised # "none"
          THEN Reply("create_note", "failure", FALSE)
          ELSE Reply("create_note", "success", NoteSuccess(call[c].result))]
    /\ UNCHANGED <<pool, users, context, users_id_seq, context_id_seq, now, call, routing,
                   adapter, conn, lifespan_context, request, db_instance, db_created, db_call>>

\* f"{context_type}_{datetime.utcnow().isoformat()}_{str(user_id)}"
EntryKey(context_type, ts, user_id) ==
    <<context_type, "_", ts, "_", ToString(user_id)>>

\* effective_source_identifier
EffectiveSourceIdentifier(source_identifier, context_type, ts, user_id) ==
    IF source_identifier # NULL THEN source_identifier
    ELSE EntryKey(context_type, ts, user_id)

\* create_jean_memory_entry up to the store_context call; an empty content
\* is rejected
create_jean_memory_entry(c, user_id, tenant_id, content, source_identifier, metadata, ts) ==
    /\ call[c].pc # "acquired"
    /\ IF ~DbAvailable \/ user_id = 0 \/ content = <<>>
       THEN ReplyNow(c, "create_jean_memory_entry", "failure", FALSE)
       ELSE AwaitStore(c, "create_jean_memory_entry",
                [user_id |-> user_id, tenant_id |-> tenant_id,
                 context_type |-> "notes",
                 source_identifier |->
                    EffectiveSourceIdentifier(source_identifier, "notes", ts,
                                              user_id),
                 content |-> content, metadata |-> metadata])
    /\ UNCHANGED <<pool, users, context, users_id_seq, context_id_seq, now, routing,
                   adapter, conn, lifespan_context, request, db_instance, db_created, db_call>>

\* "success" of create_jean_memory_entry's reply: `if success:`
EntrySuccess(returned) == returned

\* create_jean_memory_entry after store_context
create_jean_memory_entry_reply(c) ==
    /\ StoreReturned(c, "create_jean_memory_entry")
    /\ response' = [response EXCEPT ![c] =
          IF call[c].raised # "none"
          THEN Reply("create_jean_memory_entry", "failure", FALSE)
          ELSE IF EntrySuccess(call[c].result)
          THEN Reply("create_jean_memory_entry", "success", TRUE)
          ELSE Reply("create_jean_memory_entry", "failure", FALSE)]
    /\ UNCHANGED <<pool, users, context, users_id_seq, context_id_seq, now, call, routing,
                   adapter, conn, lifespan_context, request, db_instance, db_created, db_call>>

\* the coroutine methods class ContextDatabase defines
ContextDatabaseMethods ==
    {"initialize", "close", "create_or_get_user", "store_context",
     "get_context", "delete_user_data", "validate_api_key",
     "get_all_context_by_type", "get_user_settings_by_id",
     "update_user_settings_by_id", "search_context"}

\* getattr(db, method): AttributeError when the class has no such method
AttributeLookup(method) ==
    IF method \in ContextDatabaseMethods THEN "none" ELSE "AttributeError"

\* the call record of db.<method>(user_id, tenant_id, context_type) that
\* ended in the exception raised
RaisedCall(method, user_id, tenant_id, context_type, raised) ==
    [NoCall EXCEPT !.pc = "done", !.op = method, !.user_id = user_id,
        !.tenant_id = tenant_id, !.context_type = context_type,
        !.raised = raised]

\* clear_jean_memory_bank: the tool awaits db.delete_context_by_type_and_user,
\* a method ContextDatabase does not define; the AttributeError is caught by
\* the tool's except clause.  An empty context_type_to_clear is "".
clear_jean_memory_bank(c, user_id, tenant_id, context_type_to_clear) ==
    /\ call[c].pc # "acquired"
    /\ IF ~DbAvailable \/ user_id = 0 \/ context_type_to_clear = ""
       THEN ReplyNow(c, "clear_jean_memory_bank", "failure", FALSE)
       ELSE LET raised == AttributeLookup("delete_context_by_type_and_user") IN
            /\ raised # "none"
            /\ call' = [call EXCEPT ![c] =
                  RaisedCall("delete_context_by_type_and_user", user_id,
                             tenant_id, context_type_to_clear, raised)]
            /\ response' = [response EXCEPT ![c] =
                  Reply("clear_jean_memory_bank", "failure", FALSE)]
    /\ UNCHANGED <<pool, users, context, users_id_seq, context_id_seq, now, routing,
                   adapter, conn, lifespan_context, request, db_instance, db_created, db_call>>

\* user ids the middleware hands to a handler: none, a registered user, the
\* test user that is no row of users
HandlerUserIds == {0, 1, 3}

NextTools ==
    \/ \E ok \in BOOLEAN : initialize(ok)
    \/ close
    \/ \E u \in HandlerUserIds : \E k \in SourceIdentifiers :
          mcp_endpoint("c1", u, "t1", "notes", <<"a">>, k)
    \/ mcp_endpoint_reply("c1")
    \/ \E u \in HandlerUserIds : \E ts \in Timestamps :
          create_note("c1", u, "t1", <<"a">>, <<"m">>, ts)
    \/ create_note_reply("c1")
    \/ \E u \in HandlerUserIds : \E d \in {<<>>, <<"a">>} :
       \E k \in SourceIdentifiers : \E ts \in Timestamps :
          create_jean_memory_entry("c1", u, "t1", d, k, None, ts)
    \/ create_jean_memory_entry_reply("c1")
    \/ \E u \in HandlerUserIds : \E ct \in {"", "notes"} :
          clear_jean_memory_bank("c1", u, "t1", ct)
    \/ \E f \in Faults : store_context("c1", f, MaxStmts)

SpecTools == Init /\ [][NextTools]_vars

----------------------------------------------------------------------------
\* Registration and credentials: create_or_get_user and validate_api_key

GoogleIds == {"g1", "g2"}
Emails == {"e1", "e2"}

\* the credentials a request may present: none, the literal texts a client
\* sends for a missing value, issued ones, the one of the development user,
\* one never issued
ApiKeys ==
    {<<>>, <<"UNDEFINED">>, <<"null">>, Uuid(1), Uuid(2), <<"DEV_API_KEY">>,
     <<"bogus">>}

\* str.lower() of one fragment of a credential
LowerFragment(f) == IF f = "UNDEFINED" THEN "undefined" ELSE f

\* api_key.lower()
LowerText(k) == [i \in 1 .. Len(k) |-> LowerFragment(k[i])]

\* not api_key or api_key.lower() == "undefined" or api_key == "null"
EmptyOrInvalidKey(k) ==
    k = <<>> \/ LowerText(k) = <<"undefined">> \/ k = <<"null">>

\* SELECT id FROM users WHERE api_key = $1 (api_key is UNIQUE): the ids found
UserIdsByApiKey(us, k) == {u.id : u \in {v \in us : v.api_key = k}}

\* SELECT id FROM users ORDER BY id LIMIT 1
FirstUserId(us) == CHOOSE id \in UserRowIds(us) : \A j \in UserRowIds(us) : id <= j

\* the row the INSERT of validate_api_key creates
DevUser(id) == UserRow(id, "default", "dev_user", "dev@example.com", <<"DEV_API_KEY">>)

\* what validate_api_key returns for an unrecognized key when users has
\* rows: the first user
Fallback(us) == <<FirstUserId(us)>>

\* the value validate_api_key returns: <<id>> for a user id, <<>> for None
ValidateResult(us, seq, k, pl, fault) ==
    IF EmptyOrInvalidKey(k) THEN <<1>>
    ELSE IF pl = "None" THEN <<1>>
    ELSE IF pl = "closed" \/ fault # "none" THEN <<1>>
    ELSE IF UserIdsByApiKey(us, k) # {}
    THEN <<CHOOSE id \in UserIdsByApiKey(us, k) : TRUE>>
    ELSE IF us # {} THEN Fallback(us)
    ELSE <<seq>>

\* whether validate_api_key runs its INSERT of the development user
CreatesDevUser(us, k, pl, fault) ==
    /\ ~EmptyOrInvalidKey(k)
    /\ pl = "open"
    /\ fault = "none"
    /\ us = {}

ValidateReq(k) == [NoCall EXCEPT !.op = "validate_api_key", !.api_key = k]

validate_api_key(c, api_key, fault) ==
    /\ call[c].pc # "acquired"
    /\ LET made == CreatesDevUser(users, api_key, pool, fault) IN
       /\ users' = IF made THEN users \cup {DevUser(users_id_seq)} ELSE users
       /\ users_id_seq' = IF made THEN users_id_seq + 1 ELSE users_id_seq
       /\ now' = IF made THEN now + 1 ELSE now
    /\ call' = [call EXCEPT ![c] =
          [ValidateReq(api_key) EXCEPT
              !.pc = "done",
              !.result = ValidateResult(users, users_id_seq, api_key, pool, fault)]]
    /\ UNCHANGED <<pool, context, context_id_seq, response, routing,
                   adapter, conn, lifespan_context, request, db_instance, db_created, db_call>>

\* rows of users the INSERT of create_or_get_user conflicts with on google_id
GoogleIdConflict(us, g) == {u \in us : u.google_id = g}

\* UNIQUE(email): the statement would leave two rows with the same email
EmailTaken(us, g, e) == \E u \in us : u.email = e /\ u.google_id # g

\* users after INSERT ... ON CONFLICT (google_id) DO UPDATE SET email = $3
UpsertUser(us, id, t, g, e, k) ==
    IF GoogleIdConflict(us, g) = {}
    THEN us \cup {UserRow(id, t, g, e, k)}
    ELSE {IF u.google_id = g THEN [u EXCEPT !.email = e] ELSE u : u \in us}

\* what create_or_get_user raises
CreateUserError(us, pl, g, e, fault) ==
    IF pl = "None" THEN "ConnectionError"
    ELSE IF pl = "closed" \/ fault = "acquire" THEN "InterfaceError"
    ELSE IF fault = "execute" THEN "PostgresError"
    ELSE IF EmailTaken(us, g, e) THEN "UniqueViolation"
    ELSE "none"

CreateUserReq(t, g, e) ==
    [NoCall EXCEPT !.op = "create_or_get_user", !.tenant_id = t,
        !.google_id = g, !.email = e]

\* RETURNING id, api_key
Returning(us, g) ==
    LET u == CHOOSE v \in us : v.google_id = g IN [id |-> u.id, api_key |-> u.api_key]

\* create_or_get_user; the INSERT draws a users.id from the sequence whenever
\* it is executed, at most cap times
create_or_get_user(c, tenant_id, google_id, email, fault, cap) ==
    /\ call[c].pc # "acquired"
    /\ users_id_seq <= cap
    /\ LET err == CreateUserError(users, pool, google_id, email, fault)
           ran == err \in {"none", "UniqueViolation"}
           us  == IF err = "none"
                  THEN UpsertUser(users, users_id_seq, tenant_id, google_id,
                                  email, Uuid(users_id_seq))
                  ELSE users
       IN /\ users' = us
          /\ users_id_seq' = IF ran THEN users_id_seq + 1 ELSE users_id_seq
          /\ now' = IF ran THEN now + 1 ELSE now
          /\ call' = [call EXCEPT ![c] =
                [CreateUserReq(tenant_id, google_id, email) EXCEPT
                    !.pc = "done", !.raised = err,
                    !.result = IF err = "none" THEN Returning(us, google_id)
                               ELSE "-"]]
    /\ UNCHANGED <<pool, context, context_id_seq, response, routing,
                   adapter, conn, lifespan_context, request, db_instance, db_created, db_call>>

\* json.dumps(new_settings): the text of a settings dict, {} for the empty one
SettingsJson(d) ==
    IF d = <<>> THEN EmptyObjectText ELSE json_dumps(d)

\* SELECT settings FROM users WHERE id = $1: the jsonb value as the text
\* asyncpg hands over, None when there is no such row
SettingsText(us, id) ==
    IF id \notin UserRowIds(us) THEN None
    ELSE LET u == CHOOSE v \in us : v.id = id IN
         IF u.settings = <<>> THEN EmptyObjectText ELSE jsonb_text(u.settings)

\* what get_user_settings_by_id returns: None without pool or on an
\* exception, {} when there is no row, else the parsed settings
SettingsResult(us, id, pl, fault) ==
    IF pl = "None" THEN None
    ELSE IF pl = "closed" \/ fault # "none" THEN None
    ELSE IF SettingsText(us, id) = None THEN <<>>
    ELSE IF SettingsText(us, id) = EmptyObjectText THEN <<>>
    ELSE json_loads(SettingsText(us, id))

SettingsReq(op, id, d) ==
    [NoCall EXCEPT !.op = op, !.user_id = id, !.content = d]

get_user_settings_by_id(c, user_id, fault) ==
    /\ call[c].pc # "acquired"
    /\ call' = [call EXCEPT ![c] =
          [SettingsReq("get_user_settings_by_id", user_id, <<>>) EXCEPT
              !.pc = "done",
              !.result = SettingsResult(users, user_id, pool, fault)]]
    /\ UNCHANGED <<pool, users, context, users_id_seq, context_id_seq, now, response, routing,
                   adapter, conn, lifespan_context, request, db_instance, db_created, db_call>>

\* the exception update_user_settings_by_id catches, "none" when the UPDATE
\* completes; "NotInitialized" is the early return without pool
UpdateSettingsError(d, pl, fault) ==
    IF pl = "None" THEN "NotInitialized"
    ELSE IF pl = "closed" \/ fault = "acquire" THEN "acquire"
    ELSE IF json_dumps(d) = <<"TypeError">> THEN "TypeError"
    ELSE fault

\* UPDATE users SET settings = $1 WHERE id = $2
UpdateSettings(us, id, d) ==
    {IF u.id = id THEN [u EXCEPT !.settings = to_jsonb(SettingsJson(d))] ELSE u :
        u \in us}

update_user_settings_by_id(c, user_id, new_settings, fault) ==
    /\ call[c].pc # "acquired"
    /\ LET err == UpdateSettingsError(new_settings, pool, fault) IN
       /\ users' = IF err = "none" THEN UpdateSettings(users, user_id, new_settings)
                   ELSE users
       /\ call' = [call EXCEPT ![c] =
             [SettingsReq("update_user_settings_by_id", user_id, new_settings) EXCEPT
                 !.pc = "done", !.error = err, !.result = (err = "none")]]
    /\ UNCHANGED <<pool, context, users_id_seq, context_id_seq, now, response, routing,
                   adapter, conn, lifespan_context, request, db_instance, db_created, db_call>>

\* a database in which nobody has registered
InitAuth ==
    /\ pool = "None"
    /\ users = {}
    /\ context = {}
    /\ users_id_seq = 1
    /\ context_id_seq = 1
    /\ now = 0
    /\ call = [c \in Callers |-> NoCall]
    /\ response = [c \in Callers |-> NoResponse]
    /\ routing = NoRoute
    /\ ServerIdle

NextAuth ==
    \/ \E ok \in BOOLEAN : initialize(ok)
    \/ close
    \/ \E t \in Tenants : \E g \in GoogleIds : \E e \in Emails : \E f \in Faults :
          create_or_get_user("c1", t, g, e, f, MaxUsers)
    \/ \E k \in ApiKeys : \E f \in Faults : validate_api_key("c1", k, f)

SpecAuth == InitAuth /\ [][NextAuth]_vars

----------------------------------------------------------------------------
\* Every public operation of the store, before initialize, while the pool
\* is open and after close

LifecycleReqs ==
    {StoreReq(a) : a \in StoreArgs({1}, {"t1"}, {"notes"}, {<<"k1">>}, {<<"a">>}, {None})}
    \cup {GetReq(1, "t1", "notes", NULL, NoLimit),
          SearchReq(1, "t1", "notes", <<"a">>, <<DefaultSearchLimit>>),
          DeleteUserReq(1, "t1")}

NextLifecycle ==
    \/ \E ok \in BOOLEAN : initialize(ok)
    \/ close
    \/ \E q \in LifecycleReqs : begin_call("c1", q)
    \/ \E f \in Faults : store_context("c1", f, MaxStmts)
    \/ \E f \in Faults : get_context("c1", f)
    \/ \E f \in Faults : search_context("c1", f)
    \/ \E f \in Faults : delete_user_data("c1", f)
    \/ \E f \in Faults : create_or_get_user("c1", "t1", "g1", "e1", f, MaxUsers)
    \/ \E k \in {Uuid(1), <<"bogus">>} : \E f \in Faults : validate_api_key("c1", k, f)
    \/ \E f \in Faults : get_user_settings_by_id("c1", 1, f)
    \/ \E d \in {<<>>, <<"s">>} : \E f \in Faults :
          update_user_settings_by_id("c1", 1, d, f)

SpecLifecycle == InitAuth /\ [][NextLifecycle]_vars

----------------------------------------------------------------------------
\* The keyword classifier determine_context_type_simple
\* (routers/context_router.py).  A query is the sequence of its characters.

UpperCase ==
    <<"A", "B", "C", "D", "E", "F", "G", "H", "I", "J", "K", "L", "M", "N", "O", "P", "Q", "R", "S", "T", "U", "V", "W", "X", "Y", "Z">>
LowerCase ==
    <<"a", "b", "c", "d", "e", "f", "g", "h", "i", "j", "k", "l", "m", "n", "o", "p", "q", "r", "s", "t", "u", "v", "w", "x", "y", "z">>

\* str.lower() of one character
LowerChar(ch) ==
    IF \E i \in 1 .. Len(UpperCase) : UpperCase[i] = ch
    THEN LowerCase[CHOOSE i \in 1 .. Len(UpperCase) : UpperCase[i] = ch]
    ELSE ch

\* query.lower()
str_lower_Unchanged(q) == q
str_lower(q) == [i \in 1 .. Len(q) |-> LowerChar(q[i])]

\* term in text: text has term as a substring
In(term, text) ==
    \E i \in 0 .. (Len(text) - Len(term)) :
        \A j \in 1 .. Len(term) : text[i + j] = term[j]

\* the branches of the if / elif chain, in the order they are tried, each
\* with the terms of its any(...)
KeywordTable ==
    <<
      [type |-> "github",
       terms |-> {
          <<"c", "o", "d", "e">>,
          <<"r", "e", "p", "o", "s", "i", "t", "o", "r", "y">>,
          <<"g", "i", "t", "h", "u", "b">>,
          <<"c", "o", "m", "m", "i", "t">>,
          <<"r", "e", "p", "o">>,
          <<"p", "r">>,
          <<"i", "s", "s", "u", "e">>}],
      [type |-> "notes",
       terms |-> {
          <<"n", "o", "t", "e">>,
          <<"n", "o", "t", "e", "s">>,
          <<"w", "r", "o", "t", "e">>,
          <<"w", "r", "i", "t", "i", "n", "g">>,
          <<"d", "o", "c", "u", "m", "e", "n", "t">>,
          <<"o", "b", "s", "i", "d", "i", "a", "n">>}],
      [type |-> "values",
       terms |-> {
          <<"v", "a", "l", "u", "e">>,
          <<"p", "r", "e", "f", "e", "r", "e", "n", "c", "e">>,
          <<"i", "m", "p", "o", "r", "t", "a", "n", "t", " ", "t", "o", " ", "m", "e">>,
          <<"i", " ", "l", "i", "k", "e">>,
          <<"i", " ", "d", "i", "s", "l", "i", "k", "e">>}],
      [type |-> "conversations",
       terms |-> {
          <<"c", "o", "n", "v", "e", "r", "s", "a", "t", "i", "o", "n">>,
          <<"d", "i", "s", "c", "u", "s", "s", "e", "d">>,
          <<"s", "a", "i", "d">>,
          <<"t", "o", "l", "d", " ", "m", "e">>,
          <<"m", "e", "e", "t", "i", "n", "g">>}],
      [type |-> "tasks",
       terms |-> {
          <<"t", "a", "s", "k">>,
               <<"p", "r", "o", "j", "e", "c", "t">>,
          <<"g", "o", "a", "l">>,
          <<"d", "e", "a", "d", "l", "i", "n", "e">>,
          <<"s", "c", "h", "e", "d", "u", "l", "e">>}],
      [type |-> "work",
       terms |-> {
          <<"w", "o", "r", "k">>,
          <<"j", "o", "b">>,
          <<"p", "r", "o", "f", "e", "s", "s", "i", "o", "n", "a", "l">>,
          <<"c", "a", "r", "e", "e", "r">>,
          <<"i", "n", "d", "u", "s", "t", "r", "y">>}],
      [type |-> "media",
       terms |-> {
          <<"v", "i", "d", "e", "o">>,
          <<"a", "r", "t", "i", "c", "l", "e">>,
          <<"p", "o", "d", "c", "a", "s", "t">>,
          <<"r", "e", "a", "d">>,
          <<"w", "a", "t", "c", "h">>,
          <<"b", "o", "o", "k">>,
          <<"m", "o", "v", "i", "e">>}],
      [type |-> "locations",
       terms |-> {
          <<"p", "l", "a", "c", "e">>,
          <<"t", "r", "a", "v", "e", "l">>,
          <<"l", "o", "c", "a", "t", "i", "o", "n">>,
          <<"c", "i", "t", "y">>,
          <<"c", "o", "u", "n", "t", "r", "y">>,
          <<"v", "i", "s", "i", "t">>}]
    >>

\* any(term in query_lower for term in [...]) of branch i
AnyTerm(i, query_lower) ==
    \E term \in KeywordTable[i].terms : In(term, query_lower)

\* the chain from branch i on; the else branch returns "comprehensive"
RECURSIVE KeywordChain(_, _)
KeywordChain(i, query_lower) ==
    IF i > Len(KeywordTable) THEN "comprehensive"
    ELSE IF AnyTerm(i, query_lower) THEN KeywordTable[i].type
    ELSE KeywordChain(i + 1, query_lower)

determine_context_type_simple(query) ==
    KeywordChain(1, str_lower(query))

\* the queries routed
RouterQueries ==
    {<<"G", "i", "t", "H", "u", "b">>,
     <<"m", "y", " ", "N", "o", "t", "e", "s">>,
     <<"p", "r", "o", "j", "e", "c", "t">>,
     <<"I", " ", "L", "I", "K", "E">>,
     <<"h", "e", "l", "l", "o">>}

----------------------------------------------------------------------------
\* ContextRouter: determine_context_type and route

\* what the gemini_api collaborator of the router is and does when its
\* determine_context_type is awaited: "None" is no collaborator,
\* "AttributeError" class GeminiAPI (it defines no such method), "Exception"
\* a collaborator whose call fails, any other value the category a
\* collaborator such as MockGeminiAPI returns
GeminiOutcomes ==
    {"None", "AttributeError", "Exception", "notes", "obsidian"}

GeminiRaises(g) == g \in {"AttributeError", "Exception"}

\* ContextRouter.determine_context_type: the category, what it raised and
\* how often each classifier was called
determine_context_type_Reraise(query, g) ==
    IF g = "None" \/ ~GeminiRaises(g)
    THEN [context_type |-> IF g = "None"
                           THEN determine_context_type_simple(query) ELSE g,
          raised |-> "none",
          gemini_calls |-> IF g = "None" THEN 0 ELSE 1,
          keyword_calls |-> IF g = "None" THEN 1 ELSE 0]
    ELSE [context_type |-> "-", raised |-> g, gemini_calls |-> 1,
          keyword_calls |-> 0]
determine_context_type(query, g) ==
    IF g # "None"
    THEN IF GeminiRaises(g)
         THEN [context_type |-> determine_context_type_simple(query),
               raised |-> "none", gemini_calls |-> 1, keyword_calls |-> 1]
         ELSE [context_type |-> g, raised |-> "none", gemini_calls |-> 1,
               keyword_calls |-> 0]
    ELSE [context_type |-> determine_context_type_simple(query),
          raised |-> "none", gemini_calls |-> 0, keyword_calls |-> 1]

\* `if not context_type:` then classify, else take the hint as it is
Classify_IgnoringHint(hint, query, g) == determine_context_type(query, g)
Classify(hint, query, g) ==
    IF hint = "None" THEN determine_context_type(query, g)
    ELSE [context_type |-> hint, raised |-> "none", gemini_calls |-> 0,
          keyword_calls |-> 0]

\* the adapters whose get_context is get_context(self, user_id, tenant_id,
\* query); the others are get_context(self, user_id, query), and calling
\* them with three arguments raises TypeError
AcceptsTenant(n) == n \in {"github", "notes"}

\* the db and gemini_api of an adapter: ContextRouter.__init__ constructs
\* every adapter without arguments
AdapterDb(n) == "None"
AdapterGemini(n) == "None"

\* the placeholder content of an adapter
Placeholder(n) ==
    IF n = "github" THEN <<"[GitHub context placeholder]">>
    ELSE <<"[Notes context placeholder]">>

\* str(cached_data)
StrOfRows(rows) ==
    <<"[">> \o [i \in 1 .. Len(rows) |-> rows[i].content] \o <<"]">>

\* cached_data of an adapter built with db: what self.db.get_context
\* returns, [] when the adapter has no db or the call raised
CachedDataOf(db, n, pl, ctx, user_id, tenant_id) ==
    IF db = "None" \/ pl # "open" THEN <<>>
    ELSE RowDicts(GetContextRows(ctx, GetReq(user_id, tenant_id, n, NULL, NoLimit)))

\* cached_data of the adapters ContextRouter built
CachedData(n, pl, ctx, user_id, tenant_id) ==
    CachedDataOf(AdapterDb(n), n, pl, ctx, user_id, tenant_id)

\* how the call of the model inside GeminiAPI.process ends: it returns
\* text, or anything in the try block raises
ProcessOutcomes == {"text", "failed"}

\* response.text, the model's answer
ResponseText == <<"response.text">>

\* the message GeminiAPI.process returns from its except clause
ProcessErrorText ==
    <<"Error: Could not process context due to an internal error with the AI model.">>

\* GeminiAPI.process: never raises, returns the answer or the error message
process(context_type, context_data, query, outcome) ==
    IF outcome = "text" THEN ResponseText ELSE ProcessErrorText

\* the sample repositories GitHubRouter uses when it found no entries
github_data == <<"sample-repo">>

\* the dict GitHubRouter / NotesRouter.get_context returns for cached_data
GetContextResult(n, gemini_api, outcome, cached_data, query) ==
    [type |-> n,
     content |-> IF cached_data # <<>>
                 THEN IF gemini_api # "None"
                      THEN process(n, cached_data, query, outcome)
                      ELSE StrOfRows(cached_data)
                 ELSE IF n = "github" /\ gemini_api # "None"
                 THEN process(n, github_data, query, outcome)
                 ELSE Placeholder(n),
     sources |-> <<>>]

\* the dict an adapter ContextRouter built returns
AdapterResult(n, pl, ctx, user_id, tenant_id, query) ==
    GetContextResult(n, AdapterGemini(n), "text",
                     CachedData(n, pl, ctx, user_id, tenant_id), query)

\* the store reads an adapter makes
AdapterReads(n, user_id, tenant_id) ==
    IF AdapterDb(n) = "None" THEN {}
    ELSE {[user_id |-> user_id, tenant_id |-> tenant_id, context_type |-> n]}

\* the adapters route calls for a category, in registry order
Selected_UnknownAsAll(context_type) ==
    IF context_type \in RegistryNames THEN <<context_type>> ELSE Registry
Selected(context_type) ==
    IF context_type = "comprehensive" THEN Registry
    ELSE IF context_type \in RegistryNames THEN <<context_type>>
    ELSE <<>>

\* calling router.get_context(user_id, tenant_id, query) for each selected
\* adapter in turn: the call creates the coroutine, or raises TypeError and
\* ends the loop
RECURSIVE CallAdapters(_, _, _)
CallAdapters(sel, i, branch) ==
    IF i > Len(sel) THEN [branch |-> branch, raised |-> "none"]
    ELSE IF AcceptsTenant(sel[i])
    THEN CallAdapters(sel, i + 1, [branch EXCEPT ![sel[i]] = "created"])
    ELSE [branch |-> [branch EXCEPT ![sel[i]] = "failed"], raised |-> "TypeError"]

\* route up to its first await of an adapter
route(user_id, tenant_id, query, hint, g) ==
    /\ routing.pc # "awaiting"
    /\ LET cl  == Classify(hint, query, g)
           sel == Selected(cl.context_type)
           ca  == CallAdapters(sel, 1, NoRoute.branch)
           req == [NoRoute EXCEPT !.user_id = user_id, !.tenant_id = tenant_id,
                      !.query = query, !.hint = hint, !.gemini = g,
                      !.gemini_calls = cl.gemini_calls,
                      !.keyword_calls = cl.keyword_calls,
                      !.context_type = cl.context_type]
       IN routing' =
            IF cl.raised # "none"
            THEN [req EXCEPT !.pc = "done", !.raised = cl.raised]
            ELSE IF sel = <<>>
            THEN [req EXCEPT !.pc = "done",
                     !.result = [type |-> "error",
                                 content |-> <<"Could not handle context type: ",
                                               cl.context_type>>,
                                 sources |-> <<>>]]
            ELSE IF ca.raised # "none"
            THEN [req EXCEPT !.pc = "done", !.branch = ca.branch,
                     !.raised = ca.raised]
            ELSE [req EXCEPT !.pc = "awaiting", !.branch = ca.branch]
    /\ UNCHANGED <<pool, users, context, users_id_seq, context_id_seq, now, call, response,
                   adapter, conn, lifespan_context, request, db_instance, db_created, db_call>>

\* one awaited adapter coroutine runs to its return
adapter_get_context(n) ==
    /\ routing.pc = "awaiting"
    /\ routing.branch[n] = "created"
    /\ routing' = [routing EXCEPT
          !.branch[n] = "done",
          !.out[n] = AdapterResult(n, pool, context, routing.user_id,
                                   routing.tenant_id, routing.query),
          !.reads = @ \cup AdapterReads(n, routing.user_id, routing.tenant_id)]
    /\ UNCHANGED <<pool, users, context, users_id_seq, context_id_seq, now, call, response,
                   adapter, conn, lifespan_context, request, db_instance, db_created, db_call>>

\* "\n\n---\n\n"
Separator == <<"\n\n---\n\n">>

\* "\n\n---\n\n".join(contents)
RECURSIVE Join(_)
Join(contents) ==
    IF contents = <<>> THEN <<>>
    ELSE IF Len(contents) = 1 THEN Head(contents)
    ELSE Head(contents) \o Separator \o Join(Tail(contents))

\* results of the awaited adapters, in the order of the calls
Results(sel, out) == [i \in 1 .. Len(sel) |-> out[sel[i]]]

\* what route returns for its results
Combine(context_type, results) ==
    IF results = <<>>
    THEN [type |-> "no_context",
          content |-> <<"No relevant context found for the query.">>,
          sources |-> <<>>]
    ELSE IF context_type = "comprehensive" /\ Len(results) > 1
    THEN LET valid_results == SelectSeq(results, LAMBDA r : r.type # "error") IN
         [type |-> "comprehensive",
          content |-> Join([i \in 1 .. Len(valid_results) |-> valid_results[i].content]),
          sources |-> [i \in 1 .. Len(valid_results) |-> valid_results[i].type]]
    ELSE results[1]

\* route after its awaits: every awaited adapter has returned
route_return ==
    /\ routing.pc = "awaiting"
    /\ \A n \in RegistryNames : routing.branch[n] # "created"
    /\ routing' = [routing EXCEPT
          !.pc = "done",
          !.result = Combine(routing.context_type,
                             Results(Selected(routing.context_type), routing.out))]
    /\ UNCHANGED <<pool, users, context, users_id_seq, context_id_seq, now, call, response,
                   adapter, conn, lifespan_context, request, db_instance, db_created, db_call>>

\* category hints of a route call; "None" is no hint, "obsidian" no
\* registered category
Hints == {"None", "notes", "values", "comprehensive", "obsidian"}

RouteStoreArgs ==
    StoreArgs({1}, {"t1"}, {"github", "notes"}, {<<"k1">>}, {<<"a">>}, {None})

NextRoute ==
    \/ initialize(TRUE)
    \/ \E a \in RouteStoreArgs : begin_call("c1", StoreReq(a))
    \/ store_context("c1", "none", MaxStmts)
    \/ \E q \in RouterQueries : \E h \in Hints : \E g \in GeminiOutcomes :
          route(1, "t1", q, h, g)
    \/ \E n \in RegistryNames : adapter_get_context(n)
    \/ route_return

SpecRoute == Init /\ [][NextRoute]_vars

----------------------------------------------------------------------------
\* An adapter built with its collaborators, called on its own

\* the collaborators GitHubRouter / NotesRouter.__init__ accept
Dbs == {"None", "ContextDatabase"}
GeminiApis == {"None", "GeminiAPI"}
AdapterNames == {"github", "notes"}
AdapterQueries == {<<"my Notes">>, <<"hello">>}

\* GitHubRouter(db, gemini_api).get_context / NotesRouter(db, gemini_api)
\* .get_context(user_id, tenant_id, query)
router_get_context(n, db, gemini_api, outcome, user_id, tenant_id, query) ==
    LET cached_data == CachedDataOf(db, n, pool, context, user_id, tenant_id) IN
    /\ adapter' =
          [pc |-> "done", name |-> n, db |-> db, gemini_api |-> gemini_api,
           process |-> IF gemini_api = "None" THEN "-" ELSE outcome,
           user_id |-> user_id, tenant_id |-> tenant_id, query |-> query,
           cached_data |-> cached_data,
           result |-> GetContextResult(n, gemini_api, outcome, cached_data, query)]
    /\ UNCHANGED <<pool, users, context, users_id_seq, context_id_seq, now, call,
                   response, routing, conn, lifespan_context, request,
                   db_instance, db_created, db_call>>

NextAdapter ==
    \/ initialize(TRUE)
    \/ \E a \in RouteStoreArgs : begin_call("c1", StoreReq(a))
    \/ store_context("c1", "none", MaxStmts)
    \/ \E n \in AdapterNames : \E db \in Dbs : \E g \in GeminiApis :
       \E o \in ProcessOutcomes : \E t \in Tenants : \E q \in AdapterQueries :
          router_get_context(n, db, g, o, 1, t, q)

SpecAdapter == Init /\ [][NextAdapter]_vars

----------------------------------------------------------------------------
\* The pool: `async with self.pool.acquire() as conn:` in every operation

\* the operations of ContextDatabase that use the pool
PoolOps ==
    {"create_or_get_user", "store_context", "get_context", "delete_user_data",
     "validate_api_key", "get_all_context_by_type", "get_user_settings_by_id",
     "update_user_settings_by_id", "search_context"}

\* the operations that raise ConnectionError when the pool is absent; the
\* others return a default
RaisesWithoutPool ==
    {"create_or_get_user", "store_context", "get_context", "delete_user_data",
     "get_all_context_by_type", "search_context"}

\* the operations whose with block is inside try / except Exception
Absorbs(op) == op # "create_or_get_user"

\* the statements an operation runs on its connection: validate_api_key
\* runs up to three and returns after the first or the second when it
\* found a user, the others run one
LastStatement(op) == IF op = "validate_api_key" THEN 3 ELSE 1

\* `if not self.pool:` at the entry of an operation
pool_check(c, op) ==
    /\ call[c].pc \in {"idle", "done"}
    /\ call' = [call EXCEPT ![c] =
          [NoCall EXCEPT
              !.op = op,
              !.pc = IF pool = "None" THEN "done" ELSE "checked",
              !.raised = IF pool = "None" /\ op \in RaisesWithoutPool
                         THEN "ConnectionError" ELSE "none"]]
    /\ conn' = [conn EXCEPT ![c].acquired = 0, ![c].statements = 0]
    /\ UNCHANGED <<pool, users, context, users_id_seq, context_id_seq, now,
                   response, routing, adapter, lifespan_context, request,
                   db_instance, db_created, db_call>>

\* what the caller of the operation sees of exception err
Raised(op, err) == IF Absorbs(op) THEN "none" ELSE err

\* entering the with block: self.pool.acquire() hands over a connection,
\* or raises (the pool was closed meanwhile, or no connection can be made)
pool_acquire(c, fault) ==
    /\ call[c].pc = "checked"
    /\ IF pool # "open" \/ fault = "acquire"
       THEN /\ call' = [call EXCEPT ![c].pc = "done", ![c].error = "acquire",
                           ![c].raised = Raised(call[c].op, "InterfaceError")]
            /\ UNCHANGED conn
       ELSE /\ call' = [call EXCEPT ![c].pc = "acquired"]
            /\ conn' = [conn EXCEPT ![c].held = @ + 1, ![c].acquired = @ + 1]
    /\ UNCHANGED <<pool, users, context, users_id_seq, context_id_seq, now,
                   response, routing, adapter, lifespan_context, request,
                   db_instance, db_created, db_call>>

\* leaving the with block, by return or by an exception: __aexit__ gives the
\* connection back to the pool
Release_LeakOnError(cn, c, path) ==
    IF path = "raise" THEN cn ELSE [cn EXCEPT ![c].held = @ - 1]
Release(cn, c, path) == [cn EXCEPT ![c].held = @ - 1]

\* one statement on the connection: it raises (fault), or it completes and
\* the operation returns from inside the block (leave) or goes on
conn_statement(c, fault, leave) ==
    LET op == call[c].op
        k  == conn[c].statements + 1
        ran == [conn EXCEPT ![c].statements = k]
    IN /\ call[c].pc = "acquired"
       /\ k <= LastStatement(op)
       /\ leave => (k = LastStatement(op) \/ op = "validate_api_key")
       /\ (fault = "none" /\ k = LastStatement(op)) => leave
       /\ IF fault = "execute"
          THEN /\ conn' = Release(ran, c, "raise")
               /\ call' = [call EXCEPT ![c].pc = "done", ![c].error = "execute",
                              ![c].raised = Raised(op, "PostgresError")]
          ELSE IF leave
          THEN /\ conn' = Release(ran, c, "return")
               /\ call' = [call EXCEPT ![c].pc = "done"]
          ELSE /\ conn' = ran
               /\ UNCHANGED call
       /\ UNCHANGED <<pool, users, context, users_id_seq, context_id_seq, now,
                      response, routing, adapter, lifespan_context, request,
                      db_instance, db_created, db_call>>

NextPool ==
    \/ \E ok \in BOOLEAN : initialize(ok)
    \/ close
    \/ \E c \in Callers : \E op \in PoolOps : pool_check(c, op)
    \/ \E c \in Callers : \E f \in {"none", "acquire"} : pool_acquire(c, f)
    \/ \E c \in Callers : \E f \in {"none", "execute"} : \E leave \in BOOLEAN :
          conn_statement(c, f, leave)

SpecPool == InitAuth /\ [][NextPool]_vars

----------------------------------------------------------------------------
\* MCP requests: MCPAuthMiddleware.dispatch and the tool it leads to

\* what the X-User-ID and X-Tenant-ID headers of a request give: no user
\* (written 0) with the tenant 'default', or a registered user and its tenant
Identities ==
    {[user_id |-> 0, tenant_id |-> "default"],
     [user_id |-> 1, tenant_id |-> "t1"],
     [user_id |-> 2, tenant_id |-> "t2"]}

\* dispatch up to `await call_next(request)`: the identity of the request
\* goes into request.state and into the one lifespan context of the app
dispatch(c, user_id, tenant_id) ==
    /\ request[c].pc # "call_next"
    /\ request' = [request EXCEPT ![c] =
          [NoRequest EXCEPT !.pc = "call_next", !.user_id = user_id,
                            !.tenant_id = tenant_id]]
    /\ lifespan_context' = [user_id |-> user_id, tenant_id |-> tenant_id]
    /\ UNCHANGED <<pool, users, context, users_id_seq, context_id_seq, now, call,
                   response, routing, adapter, conn, db_instance, db_created,
                   db_call>>

\* the entries access_jean_memory retrieves for the identity it took
RetrievedItems(pl, ctx, user_id, tenant_id) ==
    IF user_id = 0 \/ pl # "open" THEN {}
    ELSE RowSet(GetContextRows(ctx, GetReq(user_id, tenant_id, "notes", NULL, NoLimit)))

\* access_jean_memory: takes user_id and tenant_id from the lifespan
\* context and reads the store with them; without a user id it replies
\* with an error
access_jean_memory(c) ==
    /\ request[c].pc = "call_next"
    /\ request' = [request EXCEPT
          ![c].pc = "done",
          ![c].tool_user_id = lifespan_context.user_id,
          ![c].tool_tenant_id = lifespan_context.tenant_id,
          ![c].items = RetrievedItems(pool, context, lifespan_context.user_id,
                                      lifespan_context.tenant_id)]
    /\ UNCHANGED <<pool, users, context, users_id_seq, context_id_seq, now, call,
                   response, routing, adapter, conn, lifespan_context,
                   db_instance, db_created, db_call>>

McpStoreArgs ==
    StoreArgs({1}, {"t1"}, {"notes"}, {<<"k1">>}, {<<"a">>}, {None})
    \cup StoreArgs({2}, {"t2"}, {"notes"}, {<<"k1">>}, {<<"B">>}, {None})

NextMcp ==
    \/ initialize(TRUE)
    \/ \E a \in McpStoreArgs : begin_call("c1", StoreReq(a))
    \/ store_context("c1", "none", MaxStmts)
    \/ \E c \in Callers : \E i \in Identities : dispatch(c, i.user_id, i.tenant_id)
    \/ \E c \in Callers : access_jean_memory(c)

SpecMcp == Init /\ [][NextMcp]_vars

----------------------------------------------------------------------------
\* The database singleton: database.initialize_db, get_db and close_db;
\* pool is the pool of the ContextDatabase _db_instance refers to

\* what a singleton call that returned db_instance records
Returned(op, pl) ==
    [NoDbCall EXCEPT !.pc = "done", !.op = op, !.returned = db_instance,
                     !.pool = IF db_instance = "None" THEN "-" ELSE pl]

\* initialize_db up to `await _db_instance.initialize()`: the first call
\* creates the ContextDatabase (its pool None) and assigns it to
\* _db_instance before it awaits; a call that finds an instance returns it
initialize_db(c) ==
    /\ db_call[c].pc # "initializing"
    /\ IF db_instance = "None"
       THEN /\ db_instance' = "ContextDatabase"
            /\ db_created' = db_created + 1
            /\ pool' = "None"
            /\ db_call' = [db_call EXCEPT ![c] =
                  [NoDbCall EXCEPT !.pc = "initializing", !.op = "initialize_db"]]
       ELSE /\ db_call' = [db_call EXCEPT ![c] = Returned("initialize_db", pool)]
            /\ UNCHANGED <<db_instance, db_created, pool>>
    /\ UNCHANGED <<users, context, users_id_seq, context_id_seq, now, call,
                   response, routing, adapter, conn, lifespan_context, request>>

\* the awaited ContextDatabase.initialize ends: the pool is created and
\* initialize_db returns _db_instance, or the connection attempt failed,
\* initialize re-raises and initialize_db raises with _db_instance still set
initialize_db_return(c, ok) ==
    /\ db_call[c].pc = "initializing"
    /\ pool' = IF ok THEN "open" ELSE pool
    /\ db_call' = [db_call EXCEPT ![c] =
          IF ok THEN Returned("initialize_db", "open")
          ELSE [NoDbCall EXCEPT !.pc = "done", !.op = "initialize_db",
                                !.raised = "Exception"]]
    /\ UNCHANGED <<users, context, users_id_seq, context_id_seq, now, call,
                   response, routing, adapter, conn, lifespan_context, request,
                   db_instance, db_created>>

\* get_db: returns _db_instance, None when there is none
get_db(c) ==
    /\ db_call[c].pc # "initializing"
    /\ db_call' = [db_call EXCEPT ![c] = Returned("get_db", pool)]
    /\ UNCHANGED <<pool, users, context, users_id_seq, context_id_seq, now, call,
                   response, routing, adapter, conn, lifespan_context, request,
                   db_instance, db_created>>

\* close_db, called at shutdown when no initialize_db is in flight: closes
\* the pool if there is one and forgets the instance
close_db ==
    /\ db_instance # "None"
    /\ \A c \in Callers : db_call[c].pc # "initializing"
    /\ pool' = IF pool = "open" THEN "closed" ELSE pool
    /\ db_instance' = "None"
    /\ db_created' = 0
    /\ UNCHANGED <<users, context, users_id_seq, context_id_seq, now, call,
                   response, routing, adapter, conn, lifespan_context, request,
                   db_call>>

NextSingleton ==
    \/ \E c \in Callers : initialize_db(c)
    \/ \E c \in Callers : \E ok \in BOOLEAN : initialize_db_return(c, ok)
    \/ \E c \in Callers : get_db(c)
    \/ close_db

SpecSingleton == Init /\ [][NextSingleton]_vars

----------------------------------------------------------------------------
\* Properties of the upsert

\* r is stored under the (tenant, user, category, source_key) tuple of q
SameTuple(r, q) ==
    /\ r.tenant_id = q.tenant_id
    /\ r.user_id = q.user_id
    /\ r.context_type = q.context_type
    /\ r.source_identifier = q.source_identifier

\* caller c has completed a store_context call that returned True
StoredBy(c) ==
    /\ call[c].op = "store_context"
    /\ call[c].pc = "done"
    /\ call[c].raised = "none"
    /\ call[c].result = TRUE

\* C3: in every reachable state no two entries share the same
\* (tenant_id, user_id, category, source_key) tuple, a source_key of None
\* included.
C3_TupleUnique ==
    \A r1 \in context : \A r2 \in context : SameTuple(r1, r2) => r1 = r2

\* the step in which caller c's store_context completes
StoreStep(c) ==
    /\ call[c].pc = "acquired"
    /\ call[c].op = "store_context"
    /\ call'[c].pc = "done"

\* C4: an upsert onto a tuple that already has an entry with other content
\* leaves exactly one entry for the tuple, with the id and created_at of the
\* first write, updated_at advanced and the content and metadata of this
\* call, and a following get returns that one entry with the content
\* supplied.
C4_UpsertIdempotent ==
    [][\A c \in Callers :
        (/\ StoreStep(c)
         /\ call'[c].result = TRUE
         /\ \E r \in context : SameTuple(r, call[c]) /\ r.content # call[c].content)
        => \E r \in context :
            /\ SameTuple(r, call[c])
            /\ {n \in context' : SameTuple(n, call[c])}
                 = {[r EXCEPT !.content = call[c].content,
                              !.metadata = IF call[c].metadata = None THEN <<>>
                                           ELSE call[c].metadata,
                              !.updated_at = now']}
            /\ now' > r.updated_at
            /\ LET got == GetContextRows(context',
                            GetReq(call[c].user_id, call[c].tenant_id,
                                   call[c].context_type,
                                   call[c].source_identifier, NoLimit))
               IN  Len(got) = 1 /\ got[1].content = call[c].content
    ]_vars

\* C6: every stored entry's tenant_id is the tenant of the user that owns
\* it, and an upsert that names an unknown user or a tenant that is not the
\* user's returns false and stores nothing.
C6_EntriesBelongToUsers ==
    /\ \A r \in context :
          \E u \in users : u.id = r.user_id /\ u.tenant_id = r.tenant_id
    /\ \A c \in Callers :
          (StoredBy(c) =>
              \E u \in users : /\ u.id = call[c].user_id
                               /\ u.tenant_id = call[c].tenant_id)

\* C7: a store_context call that meets a persistence-layer error returns
\* False, raises nothing and leaves table context exactly as it was; a
\* return of False always means nothing was stored.
C7_FailureStoresNothing ==
    [][\A c \in Callers :
        StoreStep(c) =>
            /\ call'[c].raised = "none"
            /\ call'[c].result = (call'[c].error = "none")
            /\ (call'[c].result = FALSE => context' = context)
    ]_vars

\* a store_context call failed on a persistence-layer error while entries
\* were stored
C7_Witness ==
    \E c \in Callers :
        /\ call[c].op = "store_context"
        /\ call[c].pc = "done"
        /\ call[c].error \in {"acquire", "execute", "ForeignKeyViolation"}
        /\ call[c].result = FALSE
        /\ context # {}

----------------------------------------------------------------------------
\* Properties of tenant isolation

\* caller c has completed operation op without raising
Completed(c, op) ==
    /\ call[c].op = op
    /\ call[c].pc = "done"
    /\ call[c].raised = "none"

\* C1: when a user id has entries of a category stored under one tenant,
\* get and search for that user id and category under another tenant return
\* an empty result.
C1_CrossTenantReadEmpty ==
    \A c \in Callers :
        (/\ Completed(c, "get_context") \/ Completed(c, "search_context")
         /\ \E r \in context : /\ r.user_id = call[c].user_id
                               /\ r.context_type = call[c].context_type
                               /\ r.tenant_id # call[c].tenant_id)
        => call[c].result = <<>>

\* C2: no store operation returns or mutates an entry whose tenant_id
\* differs from the tenant of the request it serves.
C2_OnlyRequestTenantTouched ==
    \A c \in Callers :
        call[c].pc = "done" =>
            \A r \in call[c].touched : r.tenant_id = call[c].tenant_id

\* the step in which caller c's delete_user_data completes with True
DeleteUserStep(c) ==
    /\ call[c].pc = "acquired"
    /\ call[c].op = "delete_user_data"
    /\ call'[c].pc = "done"
    /\ call'[c].result = TRUE

\* C10: delete_user_data removes every entry of the (tenant, user) given,
\* leaves every other entry as it was, and afterwards get and search for
\* that (tenant, user) are empty in every category.
C10_DeleteUserFrame ==
    [][\A c \in Callers :
        DeleteUserStep(c) =>
            LET mine(r) == r.user_id = call[c].user_id
                           /\ r.tenant_id = call[c].tenant_id
            IN  /\ \A r \in context : mine(r) => r \notin context'
                /\ \A r \in context : ~mine(r) => r \in context'
                /\ context' \subseteq context
                /\ \A ct \in ContextTypes :
                     /\ GetContextRows(context',
                            GetReq(call[c].user_id, call[c].tenant_id, ct,
                                   NULL, NoLimit)) = <<>>
                     /\ \A qs \in Queries :
                          SearchContextRows(context',
                            SearchReq(call[c].user_id, call[c].tenant_id, ct,
                                      qs, NoLimit)) = <<>>
    ]_vars

\* delete_user_data removed entries while entries of the same user id under
\* another tenant and entries of another user were stored
C10_Witness ==
    \E c \in Callers :
        /\ Completed(c, "delete_user_data")
        /\ call[c].result = TRUE
        /\ call[c].touched # {}
        /\ \E r \in context : /\ r.user_id = call[c].user_id
                              /\ r.tenant_id # call[c].tenant_id
        /\ \E r \in context : r.user_id # call[c].user_id

----------------------------------------------------------------------------
\* Properties of concurrent upserts

\* C5: after concurrent upserts to the same (tenant, user, category,
\* source_key) tuple, every writer has succeeded and the store holds exactly
\* one entry for the tuple, written last by one of the writers.
C5_ConcurrentUpsertsOneEntry ==
    \A c \in Callers : \A d \in Callers \ {c} :
        (/\ Completed(c, "store_context")
         /\ Completed(d, "store_context")
         /\ SameTuple(call[c], call[d]))
        => /\ call[c].result = TRUE
           /\ call[d].result = TRUE
           /\ \E r \in context :
                /\ {n \in context : SameTuple(n, call[c])} = {r}
                /\ r.content \in {call[c].content, call[d].content}
                /\ r.updated_at = now

----------------------------------------------------------------------------
\* Properties of the writing handlers

\* C8: the MCP store handler, create_note and create_jean_memory_entry tell
\* their client that the entry was stored only when store_context returned
\* True.
C8_ReportedOnlyWhenStored ==
    \A c \in Callers :
        (response[c].reply # "pending" /\ response[c].reported)
        => /\ Completed(c, "store_context")
           /\ call[c].result = TRUE

----------------------------------------------------------------------------
\* Properties of credentials

\* validate_api_key takes a step for caller c
ValidateStep(c) ==
    /\ call'[c].op = "validate_api_key"
    /\ call'[c].pc = "done"
    /\ call' # call \/ users' # users

\* C9: validate_api_key returns the id of the user whose api_key equals the
\* given one, and None for every other input; never a default or first user.
C9_TwoOutcomes ==
    [][\A c \in Callers :
         ValidateStep(c) =>
           call'[c].result =
             IF UserIdsByApiKey(users, call'[c].api_key) # {}
             THEN <<CHOOSE id \in UserIdsByApiKey(users, call'[c].api_key) : TRUE>>
             ELSE <<>>]_vars

\* the tool clear_jean_memory_bank invokes the store's delete for caller c
ClearBankStep(c) ==
    /\ call'[c].op = "delete_context_by_type_and_user"
    /\ call' # call \/ response' # response

\* the entries of the bank (tenant, user, category) of call record q
BankRows(ctx, q) ==
    {r \in ctx : /\ r.user_id = q.user_id
                 /\ r.tenant_id = q.tenant_id
                 /\ r.context_type = q.context_type}

\* C11: the delete of one bank invoked by clear_jean_memory_bank removes
\* every entry of that (tenant, user, category), no other entry, and the
\* tool reports success.
C11_ClearBankRemovesCategory ==
    [][\A c \in Callers :
         ClearBankStep(c) =>
           /\ context' = context \ BankRows(context, call'[c])
           /\ response'[c].reported]_vars

----------------------------------------------------------------------------
\* Properties of the reads

\* text t contains text p, letters compared without regard to case
ContainsNoCase(t, p) ==
    \E i \in 1 .. (Len(t) - Len(p) + 1) :
        \A j \in 1 .. Len(p) : Lower(t[i + j - 1]) = Lower(p[j])

\* the stored entries a get / search call q is to return, before ordering
\* and limit
ExpectedRows(ctx, q) ==
    {r \in ctx : /\ r.user_id = q.user_id
                 /\ r.tenant_id = q.tenant_id
                 /\ r.context_type = q.context_type
                 /\ (q.op = "get_context" /\ q.source_identifier # NULL =>
                        r.source_identifier = q.source_identifier)
                 /\ (q.op = "search_context" =>
                        ContainsNoCase(jsonb_text(r.content), q.query))}

\* res is the expected entries, most recently updated first, cut at limit
ExactlyMostRecent(res, expected, limit) ==
    LET ids == {res[i].id : i \in 1 .. Len(res)} IN
    /\ ids \subseteq {r.id : r \in expected}
    /\ \A i, j \in 1 .. Len(res) :
          i < j => /\ res[i].id # res[j].id
                   /\ res[i].updated_at[2] >= res[j].updated_at[2]
    /\ \A r \in expected :
          r.id \notin ids =>
             \A i \in 1 .. Len(res) : res[i].updated_at[2] >= r.updated_at
    /\ Len(res) = IF limit = NoLimit THEN Cardinality(expected)
                  ELSE Min(limit[1], Cardinality(expected))

\* a read of caller c completed without a persistence error
ReadCompleted(c) ==
    /\ call[c].pc = "done"
    /\ call[c].op \in {"get_context", "search_context"}
    /\ call[c].raised = "none"
    /\ call[c].error = "none"

\* C12: get returns exactly the stored entries of the (tenant, user,
\* category), of the source key when one is given; search exactly those whose
\* serialized content contains the text without regard to case; both most
\* recently updated first and at most limit entries.
C12_ReadsExact ==
    \A c \in Callers :
        ReadCompleted(c) =>
            ExactlyMostRecent(call[c].result, ExpectedRows(context, call[c]),
                              call[c].limit)

----------------------------------------------------------------------------
\* Properties of the lifecycle

\* a public operation of the store is entered for caller c
OperationEntered(c) ==
    /\ call[c].pc # "acquired"
    /\ call'[c] # call[c]

\* C13: an operation entered while the pool is absent (before initialize or
\* after close) ends at once with the not-initialized error: it neither
\* waits for a connection of the pool nor returns a result.
C13_FailFastWithoutPool ==
    [][\A c \in Callers :
         (OperationEntered(c) /\ pool \in {"None", "closed"}) =>
            /\ call'[c].pc = "done"
            /\ call'[c].raised = "ConnectionError"]_vars

----------------------------------------------------------------------------
\* Properties of the classifiers and of route

\* the order in which the categories of the keyword table are tried
TableOrder ==
    <<"github", "notes", "values", "conversations", "tasks", "work", "media",
      "locations">>

\* the keywords of category ct
KeywordsOf(ct) ==
    UNION {KeywordTable[i].terms :
              i \in {j \in 1 .. Len(KeywordTable) : KeywordTable[j].type = ct}}

\* a keyword of the k-th category is a substring of the lowercased query
KeywordMatch(k, query) ==
    \E term \in KeywordsOf(TableOrder[k]) :
        In(term, [i \in 1 .. Len(query) |-> LowerChar(query[i])])

C15_ClassifyFallsBack ==
    (/\ routing.pc # "idle"
     /\ routing.hint = "None"
     /\ (routing.gemini = "None" \/ GeminiRaises(routing.gemini)))
    => /\ routing.raised \notin {"AttributeError", "Exception"}
       /\ routing.context_type = determine_context_type_simple(routing.query)
       /\ routing.keyword_calls = 1

\* the external classifier was called, failed, and the keyword classifier
\* answered
C15_Witness ==
    /\ routing.pc = "done"
    /\ routing.hint = "None"
    /\ routing.gemini = "AttributeError"
    /\ routing.gemini_calls = 1
    /\ routing.context_type = "comprehensive"

\* C16: with a category hint route calls neither classifier and the hint
\* alone selects the adapter.
C16_HintBypassesClassifiers ==
    (routing.pc # "idle" /\ routing.hint # "None")
    => /\ routing.gemini_calls = 0
       /\ routing.keyword_calls = 0
       /\ routing.context_type = routing.hint
       /\ \A n \in RegistryNames :
             routing.branch[n] # "-" =>
                (routing.hint = "comprehensive" \/ n = routing.hint)

\* hint notes with the query "GitHub", which the keywords classify as github
C16_Witness ==
    /\ routing.pc = "done"
    /\ routing.hint = "notes"
    /\ routing.query = <<"G", "i", "t", "H", "u", "b">>
    /\ routing.gemini # "None"
    /\ routing.result.type = "notes"

\* the route call completes in this step
RouteCompletes ==
    /\ routing' # routing
    /\ routing'.pc = "done"

\* the stored entries of category ct for the user and tenant of the route
RoutedBank(ct) ==
    {r \in context : /\ r.user_id = routing'.user_id
                     /\ r.tenant_id = routing'.tenant_id
                     /\ r.context_type = ct}

\* C17: route with the hint of a registered category that has a stored
\* entry reads the store for (user, tenant, category) and returns content
\* derived from the stored entries.
C17_AdapterReadsStore ==
    [][(/\ RouteCompletes
        /\ routing'.hint \in RegistryNames
        /\ RoutedBank(routing'.hint) # {})
       => /\ [user_id |-> routing'.user_id, tenant_id |-> routing'.tenant_id,
              context_type |-> routing'.hint] \in routing'.reads
          /\ \E r \in RoutedBank(routing'.hint) :
                In(r.content, routing'.result.content)]_vars

\* the elements of a sequence
Elements(seq) == {seq[i] : i \in 1 .. Len(seq)}

\* C18: a comprehensive route, github and notes having stored entries,
\* returns sources that list the categories with entries and no category
\* without, and content that holds text of each listed category.
C18_MergeComplete ==
    [][(/\ RouteCompletes
        /\ routing'.context_type = "comprehensive"
        /\ RoutedBank("github") # {}
        /\ RoutedBank("notes") # {})
       => /\ routing'.raised = "none"
          /\ Elements(routing'.result.sources) =
                {n \in RegistryNames : RoutedBank(n) # {}}
          /\ \A n \in Elements(routing'.result.sources) :
                \E r \in RoutedBank(n) : In(r.content, routing'.result.content)]_vars

\* registry names whose adapter result is not flagged as an error, in
\* registry order
Unflagged(out) == SelectSeq(Registry, LAMBDA n : out[n].type # "error")

\* C19: a comprehensive route invokes every registered adapter once, drops
\* the results flagged as errors, and returns the remaining contents joined
\* by the separator with their types as sources, in registry order.
C19_FanOutMerged ==
    [][(RouteCompletes /\ routing'.context_type = "comprehensive")
       => /\ routing'.raised = "none"
          /\ \A n \in RegistryNames : routing'.branch[n] = "done"
          /\ routing'.result.type = "comprehensive"
          /\ routing'.result.sources = Unflagged(routing'.out)
          /\ routing'.result.content =
                Join([i \in 1 .. Len(Unflagged(routing'.out)) |->
                         routing'.out[Unflagged(routing'.out)[i]].content])]_vars

\* C20: a comprehensive route does not complete, by a result or by an
\* exception, before every branch of the fan-out has completed or failed.
C20_NoShortCircuit ==
    (routing.pc = "done" /\ routing.context_type = "comprehensive")
    => \A n \in RegistryNames : routing.branch[n] \in {"done", "failed"}

\* C21: when the resolved category is one registered adapter, route invokes
\* that adapter once and no other, and returns its result unmodified.
C21_SingleAdapterOnly ==
    [][(RouteCompletes /\ routing'.context_type \in RegistryNames)
       => /\ routing'.raised = "none"
          /\ \A n \in RegistryNames :
                routing'.branch[n] =
                   IF n = routing'.context_type THEN "done" ELSE "-"
          /\ routing'.result = routing'.out[routing'.context_type]]_vars

\* C22: when the resolved category is neither comprehensive nor a registered
\* adapter, route invokes no adapter and returns the result of type error,
\* which is neither a success nor the no-context result.
C22_UnhandledCategory ==
    (/\ routing.pc = "done"
     /\ routing.context_type \notin RegistryNames \cup {"comprehensive", "-"})
    => /\ routing.raised = "none"
       /\ \A n \in RegistryNames : routing.branch[n] = "-"
       /\ routing.result.type = "error"

\* the classifier resolved a category that is not registered
C22_Witness ==
    /\ routing.pc = "done"
    /\ routing.hint = "None"
    /\ routing.gemini = "obsidian"
    /\ routing.context_type = "obsidian"
    /\ routing.result.type = "error"

\* the categories a route attempts for its resolved category
Attempted(context_type) ==
    IF context_type = "comprehensive" THEN RegistryNames
    ELSE {context_type} \cap RegistryNames

\* C23: when no attempted category has a stored entry, route returns the
\* result of type no_context, for one category and for comprehensive.
C23_NoContextWhenNothingStored ==
    [][(/\ RouteCompletes
        /\ Attempted(routing'.context_type) # {}
        /\ \A n \in Attempted(routing'.context_type) : RoutedBank(n) = {})
       => /\ routing'.raised = "none"
          /\ routing'.result.type = "no_context"]_vars

\* what route returns for context_type when the category has no stored
\* entry and the store works
NoEntriesResult(context_type) ==
    [type |-> context_type, content |-> Placeholder(context_type),
     sources |-> <<>>]

\* C25: a store failure during the retrieval of a route (pool absent) is not
\* absorbed: the result differs from the one for a category without entries.
C25_StoreFailureDistinct ==
    [][(/\ RouteCompletes
        /\ routing'.context_type \in {"github", "notes"}
        /\ pool # "open")
       => routing'.result # NoEntriesResult(routing'.context_type)]_vars

\* C24: when the store returned entries for the category and the
\* summarization service is absent or its call failed, the adapter's
\* get_context returns a result of the category's type whose content is the
\* raw serialized entries.
C24_RawEntriesWhenSummarizerFails ==
    (/\ adapter.pc = "done"
     /\ adapter.cached_data # <<>>
     /\ adapter.gemini_api = "None" \/ adapter.process = "failed")
    => /\ adapter.result.type = adapter.name
       /\ adapter.result.content = StrOfRows(adapter.cached_data)

\* the step in which a create_or_get_user call of c1 returns (id, api_key)
CreateUserReturns ==
    /\ call'["c1"].op = "create_or_get_user"
    /\ call'["c1"].pc = "done"
    /\ call'["c1"].raised = "none"
    /\ users_id_seq' = users_id_seq + 1

\* the rows of us registered for the pair (tenant_id, google_id)
PairRows(us, t, g) == {u \in us : u.tenant_id = t /\ u.google_id = g}

\* C26: create_or_get_user is idempotent per (tenant_id, google_id): after a
\* call that returned, exactly one user row carries the pair and the call
\* returned that row's id and api_key; no call changes the id, the api_key,
\* the tenant or the identity of a row that exists.
C26_IssuanceIdempotentPerPair ==
    [][CreateUserReturns
       => LET t == call'["c1"].tenant_id
              g == call'["c1"].google_id
          IN /\ Cardinality(PairRows(users', t, g)) = 1
             /\ \A u \in PairRows(users', t, g) :
                   call'["c1"].result = [id |-> u.id, api_key |-> u.api_key]
             /\ \A u \in users : \E v \in users' :
                   /\ v.id = u.id
                   /\ v.api_key = u.api_key
                   /\ v.tenant_id = u.tenant_id
                   /\ v.google_id = u.google_id]_vars

\* the step in which the store_context call of a writing tool that made up
\* the source key itself returns True
SyntheticKeyStored ==
    /\ call["c1"].pc = "acquired"
    /\ call["c1"].op = "store_context"
    /\ response["c1"].handler \in {"create_note", "create_jean_memory_entry"}
    /\ call["c1"].source_identifier \notin SourceIdentifiers
    /\ call'["c1"].pc = "done"
    /\ call'["c1"].result = TRUE

\* C27: a create_note or create_jean_memory_entry call made without a source
\* key stores a new entry and overwrites none: the entries stored before
\* are all kept as they were and there is one more.
C27_SyntheticKeyNeverOverwrites ==
    [][SyntheticKeyStored
       => /\ context \subseteq context'
          /\ Cardinality(context') = Cardinality(context) + 1]_vars

\* C28: every store operation acquires at most one pooled connection and
\* holds none once it has returned or raised, so when no operation is in
\* flight no connection is held.
C28_PoolDiscipline ==
    \A c \in Callers :
        /\ conn[c].acquired <= 1
        /\ conn[c].held <= 1
        /\ call[c].pc \in {"idle", "done"} => conn[c].held = 0

\* an operation that acquired a connection ended on an error path while
\* another operation holds a connection
C28_Witness ==
    /\ call["c1"].pc = "done"
    /\ call["c1"].op = "validate_api_key"
    /\ call["c1"].error = "execute"
    /\ conn["c1"].acquired = 1
    /\ conn["c1"].statements = 2
    /\ call["c2"].pc = "acquired"
    /\ conn["c2"].held = 1

\* C29: under any interleaving of MCP requests, a tool invocation reads the
\* store with the user_id and tenant_id of the request that triggered it,
\* and what it retrieves belongs to that user and tenant.
C29_ToolUsesOwnRequestIdentity ==
    \A c \in Callers :
        request[c].pc = "done"
        => /\ request[c].tool_user_id = request[c].user_id
           /\ request[c].tool_tenant_id = request[c].tenant_id
           /\ \A r \in request[c].items :
                 /\ r.user_id = request[c].user_id
                 /\ r.tenant_id = request[c].tenant_id

\* C30: every instance initialize_db or get_db returns has an initialized
\* pool, under concurrent initialize_db calls and after an initialize_db
\* whose connection attempt failed, and at most one ContextDatabase is
\* created between two close_db calls.
C30_SingletonUsable ==
    /\ db_created <= 1
    /\ \A c \in Callers :
          (db_call[c].pc = "done" /\ db_call[c].returned = "ContextDatabase")
          => db_call[c].pool = "open"

====
